---- MODULE Spec2Model ----
(***************************************************************************)
(* Model of the voice-agent front-end: the configuration record            *)
(* APP_CONFIG_DEFAULTS (frontend/app-config.ts), built once when the       *)
(* module is loaded from literals and process.env.AGENT_NAME, and the      *)
(* WelcomeView component (welcome view file), which renders static markup  *)
(* around a start button whose label and click handler are its props.      *)
(*                                                                         *)
(* JavaScript values of the configuration are tagged records               *)
(* [t |-> type, v |-> value]; the environment is a partial function from   *)
(* variable names to strings (an unset variable is absent from its         *)
(* domain).  Callbacks are identities 1..NumCallbacks; `calls` counts how  *)
(* often each one has been invoked.                                        *)
(***************************************************************************)
EXTENDS Integers, Sequences, FiniteSets, TLC

VARIABLES processEnv, loadEnv, config, props, rendered, calls, clicks

vars == <<processEnv, loadEnv, config, props, rendered, calls, clicks>>

(* ------------------------------ bounds --------------------------------- *)

MaxClicks == 3

NumCallbacks == 2

(* ------------------------- JavaScript values --------------------------- *)

undefined == [t |-> "undefined"]

null == [t |-> "null"]

Str(s) == [t |-> "string", v |-> s]

Bool(b) == [t |-> "boolean", v |-> b]

Obj(f) == [t |-> "object", v |-> f]

TypeError == [t |-> "throw", v |-> "TypeError"]

IsThrow(x) == "t" \in DOMAIN x /\ x.t = "throw"

\* obj.key: reading a property of undefined or null throws, a missing
\* property reads as undefined
Get(obj, key) ==
  IF IsThrow(obj) THEN obj
  ELSE IF obj.t \in {"undefined", "null"} THEN TypeError
  ELSE IF obj.t = "object" /\ key \in DOMAIN obj.v THEN obj.v[key]
  ELSE undefined

\* a || b, the mutation of ?? that also replaces the empty string
LogicalOr(a, b) ==
  IF IsThrow(a) THEN a
  ELSE IF a.t \in {"undefined", "null"} THEN b
  ELSE IF a.t = "string" /\ a.v = "" THEN b
  ELSE IF a.t = "boolean" /\ a.v = FALSE THEN b
  ELSE a

\* a ?? b
Nullish(a, b) ==
  IF IsThrow(a) THEN a
  ELSE IF a.t \in {"undefined", "null"} THEN b
  ELSE a

(* ---------------------------- environment ------------------------------ *)

EnvVars == {"AGENT_NAME", "SANDBOX_ID"}

EnvStrings == {"", "trading-agent"}

Environments == UNION {[D -> EnvStrings] : D \in SUBSET EnvVars}

\* the global `process`, whose env property maps each set variable to a string
process(env) == Obj([env |-> Obj([k \in DOMAIN env |-> Str(env[k])])])

(* --------------------------- app-config.ts ----------------------------- *)

StringFields == {"pageTitle", "pageDescription", "companyName", "logo",
                 "startButtonText"}

BooleanFields == {"supportsChatInput", "supportsVideoInput",
                  "supportsScreenShare", "isPreConnectBufferEnabled"}

OptionalStringFields == {"accent", "logoDark", "accentDark", "agentName",
                         "sandboxId"}

AppConfigFields == StringFields \cup BooleanFields \cup OptionalStringFields

\* the object literal, given the values of its two computed members
ConfigLiteral(agentName, sandboxId) ==
  IF IsThrow(agentName) THEN agentName
  ELSE IF IsThrow(sandboxId) THEN sandboxId
  ELSE
  [ companyName |-> Str("Trading Assistant"),
    pageTitle |-> Str("AI Trading Assistant"),
    pageDescription |-> Str("Your personal voice-powered portfolio analyst"),
    supportsChatInput |-> Bool(TRUE),
    supportsVideoInput |-> Bool(FALSE),
    supportsScreenShare |-> Bool(FALSE),
    isPreConnectBufferEnabled |-> Bool(TRUE),
    logo |-> Str("/lk-logo.svg"),
    accent |-> Str("#16a34a"),
    logoDark |-> Str("/lk-logo-dark.svg"),
    accentDark |-> Str("#4ade80"),
    startButtonText |-> Str("Analyse my portfolio"),
    agentName |-> agentName,
    sandboxId |-> sandboxId ]

\* mutation: a literal default is changed
ConfigVideoEnabled(env) ==
  [ConfigLiteral(Nullish(Get(Get(process(env), "env"), "AGENT_NAME"), undefined),
                 undefined)
     EXCEPT !.supportsVideoInput = Bool(TRUE)]

\* mutation: agentName falls back with || instead of ??
ConfigLogicalOr(env) ==
  ConfigLiteral(LogicalOr(Get(Get(process(env), "env"), "AGENT_NAME"), undefined),
                undefined)

\* mutation: agentName falls back to null
ConfigNullName(env) ==
  ConfigLiteral(Nullish(Get(Get(process(env), "env"), "AGENT_NAME"), null),
                undefined)

\* mutation: the value read from the environment is dereferenced
ConfigNameLength(env) ==
  ConfigLiteral(
    Nullish(Get(Get(Get(process(env), "env"), "AGENT_NAME"), "length"), undefined),
    undefined)

\* mutation: sandboxId is read from the environment as well
ConfigSandboxFromEnv(env) ==
  ConfigLiteral(Nullish(Get(Get(process(env), "env"), "AGENT_NAME"), undefined),
                Nullish(Get(Get(process(env), "env"), "SANDBOX_ID"), undefined))

\* export const APP_CONFIG_DEFAULTS, evaluated in environment env
APP_CONFIG_DEFAULTS(env) ==
  ConfigLiteral(Nullish(Get(Get(process(env), "env"), "AGENT_NAME"), undefined),
                undefined)

(* --------------------------- welcome view ------------------------------ *)

Line(x1, y1, x2, y2, opacity) ==
  [tag |-> "line", x1 |-> x1, y1 |-> y1, x2 |-> x2, y2 |-> y2,
   stroke |-> "currentColor", strokeWidth |-> 2, strokeLinecap |-> "round",
   opacity |-> opacity]

Rect(x, y, width, height, opacity) ==
  [tag |-> "rect", x |-> x, y |-> y, width |-> width, height |-> height,
   rx |-> 1, fill |-> "currentColor", opacity |-> opacity]

\* function WelcomeImage(): the candlestick icon; opacity in percent
WelcomeImage ==
  [tag |-> "svg", width |-> 64, height |-> 64, viewBox |-> <<0, 0, 64, 64>>,
   fill |-> "none", className |-> "text-fg0 mb-4 size-16",
   children |-> <<
     Line(12, 8, 12, 16, 100), Rect(8, 16, 8, 14, 40), Line(12, 30, 12, 38, 100),
     Line(28, 12, 28, 20, 100), Rect(24, 20, 8, 18, 100), Line(28, 38, 28, 46, 100),
     Line(44, 6, 44, 14, 100), Rect(40, 14, 8, 12, 40), Line(44, 26, 44, 34, 100),
     Line(56, 18, 56, 24, 100), Rect(52, 24, 8, 20, 100), Line(56, 44, 56, 52, 100),
     Line(4, 58, 60, 58, 30) >>]

Callbacks == 1..NumCallbacks

\* an onClick that is not a function
NoHandler == 0

Labels == {"", "Start call", " Analyse my portfolio ", "GO"}

Refs == {"none", "ref1"}

WelcomeViewProps ==
  [startButtonText : Labels, onStartCall : Callbacks, ref : Refs]

\* <Button {...p}>{children}</Button>: a button element carrying the click
\* handler and the children it was given
Button(p, children) ==
  [tag |-> "button", size |-> p.size, className |-> p.className,
   onClick |-> p.onClick, children |-> children]

\* the texts below are the source's; its dash and its middle dots, which are
\* not ASCII, are written - and .
HeadingText == "AI Trading Assistant"

ParagraphText ==
  "Ask about your portfolio, analyse your trades, check live prices, or create a new pie - all by voice."

FooterText ==
  "Powered by Trading 212 . For informational use only . Not financial advice."

ButtonClassName ==
  "mt-6 w-64 rounded-full font-mono text-xs font-bold tracking-wider uppercase"

\* the element tree returned by WelcomeView, given the button's handler and
\* label and the heading text
ViewElement(p, heading, onClick, label) ==
  [ref |-> p.ref,
   image |-> WelcomeImage,
   heading |-> heading,
   paragraph |-> ParagraphText,
   button |-> Button([size |-> "lg", onClick |-> onClick,
                      className |-> ButtonClassName], label),
   footer |-> FooterText]

\* mutation: onClick={onStartCall()} calls the callback while rendering
WelcomeViewEager(p) ==
  [element |-> ViewElement(p, HeadingText, NoHandler, p.startButtonText),
   invoked |-> <<p.onStartCall>>]

\* mutation: an empty label is replaced by the configured default
WelcomeViewDefaultLabel(p) ==
  [element |-> ViewElement(p, HeadingText, p.onStartCall,
                           IF p.startButtonText = "" THEN "Analyse my portfolio"
                           ELSE p.startButtonText),
   invoked |-> <<>>]

\* mutation: the heading shows the label too
WelcomeViewLabelHeading(p) ==
  [element |-> ViewElement(p, p.startButtonText, p.onStartCall, p.startButtonText),
   invoked |-> <<>>]

\* export const WelcomeView: the element it returns and the callbacks it
\* calls while being evaluated (its body calls none)
WelcomeView(p) ==
  [element |-> ViewElement(p, HeadingText, p.onStartCall, p.startButtonText),
   invoked |-> <<>>]

(* --------------------------- state machine ----------------------------- *)

NotRendered == [tag |-> "none"]

NoProps == [tag |-> "none"]

RECURSIVE Invoke(_, _)
\* call each callback of the sequence in order
Invoke(c, seq) ==
  IF seq = <<>> THEN c
  ELSE Invoke([c EXCEPT ![Head(seq)] = @ + 1], Tail(seq))

\* the module is loaded: the configuration is built from the environment of
\* the process; nothing is rendered yet
Init ==
  /\ processEnv \in Environments
  /\ loadEnv = processEnv
  /\ config = APP_CONFIG_DEFAULTS(processEnv)
  /\ props = NoProps
  /\ rendered = NotRendered
  /\ calls = [c \in Callbacks |-> 0]
  /\ clicks = 0

\* mutation: a re-render keeps the click handler of the first render
RenderStale(p) ==
  /\ props' = p
  /\ rendered' = IF rendered = NotRendered THEN WelcomeView(p).element
                 ELSE [WelcomeView(p).element EXCEPT
                         !.button.onClick = rendered.button.onClick]
  /\ calls' = Invoke(calls, WelcomeView(p).invoked)
  /\ UNCHANGED <<processEnv, loadEnv, config, clicks>>

\* React renders or re-renders <WelcomeView {...p} />
Render(p) ==
  /\ props' = p
  /\ rendered' = WelcomeView(p).element
  /\ calls' = Invoke(calls, WelcomeView(p).invoked)
  /\ UNCHANGED <<processEnv, loadEnv, config, clicks>>

\* the user clicks the start button: its onClick handler runs
Click ==
  /\ rendered # NotRendered
  /\ clicks < MaxClicks
  /\ clicks' = clicks + 1
  /\ calls' = IF rendered.button.onClick \in Callbacks
              THEN Invoke(calls, <<rendered.button.onClick>>)
              ELSE calls
  /\ UNCHANGED <<processEnv, loadEnv, config, props, rendered>>

\* mutation: agentName is a getter that re-reads the environment
SetEnvLive(k, s) ==
  /\ processEnv' = [x \in DOMAIN processEnv \cup {k} |->
                      IF x = k THEN s ELSE processEnv[x]]
  /\ processEnv' # processEnv
  /\ config' = APP_CONFIG_DEFAULTS(processEnv')
  /\ UNCHANGED <<loadEnv, props, rendered, calls, clicks>>

\* process.env[k] = s after the module was loaded
SetEnv(k, s) ==
  /\ processEnv' = [x \in DOMAIN processEnv \cup {k} |->
                      IF x = k THEN s ELSE processEnv[x]]
  /\ processEnv' # processEnv
  /\ UNCHANGED <<loadEnv, config, props, rendered, calls, clicks>>

\* delete process.env[k] after the module was loaded
UnsetEnv(k) ==
  /\ k \in DOMAIN processEnv
  /\ processEnv' = [x \in DOMAIN processEnv \ {k} |-> processEnv[x]]
  /\ UNCHANGED <<loadEnv, config, props, rendered, calls, clicks>>

Next ==
  \/ \E p \in WelcomeViewProps : Render(p)
  \/ Click
  \/ \E k \in EnvVars, s \in EnvStrings : SetEnv(k, s)
  \/ \E k \in EnvVars : UnsetEnv(k)

Spec == Init /\ [][Next]_vars

(* ------------------------------ claims --------------------------------- *)

RECURSIVE SumUpTo(_, _)
SumUpTo(c, n) == IF n = 0 THEN 0 ELSE c[n] + SumUpTo(c, n - 1)

TotalCalls == SumUpTo(calls, NumCallbacks)

IsSet(env, k) == k \in DOMAIN env

\* a configuration record without its agentName
WithoutAgentName(c) == [f \in AppConfigFields \ {"agentName"} |-> c[f]]

\* the texts of an element tree, in document order
Texts(e) == <<e.heading, e.paragraph, e.button.children, e.footer>>

\* C1: after any sequence of renders and clicks, the number of invocations
\* of the callbacks given as onStartCall equals the number of clicks: a click
\* invokes one callback once, a render or re-render invokes none.
C1_CallsEqualClicks == TotalCalls = clicks

C1_Witness == clicks = 2 /\ calls[1] = 2 /\ props.startButtonText = "GO"

\* C2: the label inside the start button is the startButtonText of the most
\* recent render, unchanged, whatever the string (empty, padded with blanks,
\* upper case).
C2_LabelIsStartButtonText ==
  rendered # NotRendered => rendered.button.children = props.startButtonText

C2_Witness ==
  /\ rendered # NotRendered
  /\ props.startButtonText = ""
  /\ rendered.button.children = ""
  /\ clicks = 1

\* C3: when AGENT_NAME was unset as the module was loaded, every field of the
\* configuration record equals its literal default, and agentName and
\* sandboxId are undefined.
C3_LiteralDefaults ==
  ~IsSet(loadEnv, "AGENT_NAME") =>
    /\ DOMAIN config = AppConfigFields
    /\ config.companyName = Str("Trading Assistant")
    /\ config.pageTitle = Str("AI Trading Assistant")
    /\ config.pageDescription = Str("Your personal voice-powered portfolio analyst")
    /\ config.supportsChatInput = Bool(TRUE)
    /\ config.supportsVideoInput = Bool(FALSE)
    /\ config.supportsScreenShare = Bool(FALSE)
    /\ config.isPreConnectBufferEnabled = Bool(TRUE)
    /\ config.logo = Str("/lk-logo.svg")
    /\ config.accent = Str("#16a34a")
    /\ config.logoDark = Str("/lk-logo-dark.svg")
    /\ config.accentDark = Str("#4ade80")
    /\ config.startButtonText = Str("Analyse my portfolio")
    /\ config.agentName = undefined
    /\ config.sandboxId = undefined

C3_Witness ==
  /\ ~IsSet(loadEnv, "AGENT_NAME")
  /\ IsSet(loadEnv, "SANDBOX_ID")
  /\ config.agentName = undefined
  /\ config.supportsVideoInput = Bool(FALSE)

\* C4: once the module is loaded no step (a render, a click with the call of
\* the callback, a later change of the environment) changes any field of the
\* configuration record.
C4_ConfigImmutable == [][config' = config]_vars

C4_Witness ==
  /\ IsSet(processEnv, "AGENT_NAME")
  /\ ~IsSet(loadEnv, "AGENT_NAME")
  /\ config.agentName = undefined
  /\ rendered # NotRendered
  /\ clicks = 1

\* C5: in every state and for every environment each field of the
\* configuration record has its declared type: five strings, four booleans,
\* and five fields that are a string or undefined.
C5_FieldTypes ==
  /\ DOMAIN config = AppConfigFields
  /\ \A f \in StringFields : config[f].t = "string"
  /\ \A f \in BooleanFields : config[f].t = "boolean"
  /\ \A f \in OptionalStringFields : config[f].t \in {"string", "undefined"}

C5_Witness ==
  /\ IsSet(loadEnv, "AGENT_NAME")
  /\ config.agentName.t = "string"
  /\ config.sandboxId.t = "undefined"
  /\ ~IsSet(processEnv, "AGENT_NAME")

C7_AgentNameFromEnv ==
  /\ IsSet(loadEnv, "AGENT_NAME") =>
       config.agentName = Str(loadEnv["AGENT_NAME"])
  /\ (config.agentName = undefined) <=> ~IsSet(loadEnv, "AGENT_NAME")

C7_Witness ==
  /\ IsSet(loadEnv, "AGENT_NAME")
  /\ loadEnv["AGENT_NAME"] = ""
  /\ config.agentName = Str("")

\* C8: the records built from any two environments agree on every field but
\* agentName: the record of this run equals, agentName apart, the record any
\* other environment yields, and its sandboxId is undefined.
C8_OnlyAgentNameFromEnv ==
  /\ \A e \in Environments :
       WithoutAgentName(APP_CONFIG_DEFAULTS(e)) = WithoutAgentName(config)
  /\ config.sandboxId = undefined

C8_Witness ==
  /\ IsSet(loadEnv, "SANDBOX_ID")
  /\ loadEnv["SANDBOX_ID"] = "trading-agent"
  /\ config.agentName = Str("trading-agent")
  /\ config.sandboxId = undefined

\* C9: a click invokes the onStartCall of the most recent render once and no
\* callback of an earlier render.
C9_ClickInvokesLatest ==
  [][clicks' = clicks + 1 =>
       calls' = [calls EXCEPT ![props.onStartCall] = @ + 1]]_vars

C9_Witness ==
  /\ clicks = 2
  /\ calls[1] = 1
  /\ calls[2] = 1
  /\ props.onStartCall = 2

\* C10: the icon, the heading 'AI Trading Assistant', the paragraph and the
\* footer of the rendered view are those of a render with any other props,
\* and a render with the same startButtonText yields the same texts: only the
\* button label varies.
C10_StaticMarkup ==
  rendered # NotRendered =>
    /\ rendered.heading = "AI Trading Assistant"
    /\ \A q \in WelcomeViewProps :
         /\ WelcomeView(q).element.image = rendered.image
         /\ WelcomeView(q).element.heading = rendered.heading
         /\ WelcomeView(q).element.paragraph = rendered.paragraph
         /\ WelcomeView(q).element.footer = rendered.footer
         /\ q.startButtonText = props.startButtonText =>
              Texts(WelcomeView(q).element) = Texts(rendered)

C10_Witness ==
  /\ rendered # NotRendered
  /\ props.startButtonText = "Start call"
  /\ props.onStartCall = 2
  /\ rendered.heading = "AI Trading Assistant"
  /\ rendered.button.children = "Start call"

====
